---- MODULE Spec2Model ----
(***************************************************************************)
(* Model of the readings API of diabetes_tracker:                          *)
(*   app/api/readings/route.js  (GET and POST handlers)                    *)
(*   lib/db.js                  (query: pooled connection, try/finally)    *)
(* The page of app/dashboard/page.js is one client of that API; its check  *)
(* of the date in handleSubmit runs in the browser and binds no other      *)
(* client, so a POST may carry any date.                                   *)
(*                                                                         *)
(* A request handler is a chain of awaits.  Each action below is one run   *)
(* of the handler between two awaits that touch shared state (the pool,    *)
(* the readings table); the awaits on getServerSession and request.json    *)
(* touch no shared state and are folded into the first step.  A single SQL *)
(* statement is atomic in the store and is executed in the step in which   *)
(* client.query settles.  The table is modelled with the columns the       *)
(* handlers read and write; created_at is set by the store and read by no  *)
(* handler logic.  The pool is never exhausted by the requests in flight.  *)
(***************************************************************************)
EXTENDS Integers, Sequences, FiniteSets, TLC

VARIABLES
    rows,      \* the readings table: a set of rows
    nextId,    \* the serial that generates readings.id
    pc,        \* per request slot: "idle", "connect", "exec", "done"
    stmt,      \* per request slot: the statement of the current query() call
    req,       \* per request slot: method, session, user_id parameter, body
    resp,      \* per request slot: the response (status, body)
    leased,    \* request slots whose query() call has a client checked out
    acquires,  \* per request slot: clients pool.connect() has handed to it
    releases,  \* per request slot: its client.release() calls
    hist,      \* history, per (user, date): the writes the store has executed
    conc,      \* history, per request slot: its UPDATE raced another UPDATE
    scope      \* the clients of this behaviour: who is signed in, what they send

vars == <<rows, nextId, pc, stmt, req, resp, leased, acquires, releases, hist, conc, scope>>

-----------------------------------------------------------------------------
(* Bounds and constants *)

\* Rows the table can come to hold: a POST is accepted only while the rows
\* stored plus the POSTs in flight that may still insert stay below this.
MaxRows == 2

\* INTERVAL '3 months' of the GET statement; dates are counted in months.
WindowMonths == 3

\* CURRENT_DATE / new Date(): the current calendar date.
Today == WindowMonths + 1

\* Calendar dates a client can send: one before the trailing window, today,
\* and one in the future.
Dates == {Today - WindowMonths - 1, Today, Today + 1}

Users == {"u1", "u2"}
Reqs == {"r1", "r2"}
NoSession == "none"

\* JSON values of a reading field, written as their JSON text.  "undefined"
\* is a field missing from the body, "''" the empty string the form sends
\* for an untouched input, "0" the number zero.
Undefined == "undefined"
EmptyStr == "''"
Zero == "0"
Null == "null"
FieldValues == {Undefined, EmptyStr, Zero, "110", "140"}

\* The date field of a body: <<>> when missing, <<d>> otherwise.
DateValues == {<<>>} \cup {<<d>> : d \in Dates}

Bodies == [preReading : FieldValues, postReading : FieldValues, date : DateValues]

\* The clients of one behaviour.  Each scope keeps one dimension of the
\* input space wide and the others narrow.
\* One user, one date (today, by default), every kind of field value:
\* submissions that contend for one record.
ValueScope ==
    [users  |-> {"u1"},
     bodies |-> [preReading : {Undefined, "110", "140"},
                 postReading : {EmptyStr, Zero, "140"},
                 date : {<<>>}]]
\* One user, every date.
DateScope ==
    [users  |-> {"u1"},
     bodies |-> [preReading : {Undefined, "110"},
                 postReading : {Undefined},
                 date : {<<d>> : d \in Dates}]]
\* Every user, one date.
UserScope ==
    [users  |-> Users,
     bodies |-> [preReading : {Undefined, "110"},
                 postReading : {Undefined, "140"},
                 date : {<<Today>>}]]
Scopes == {ValueScope, DateScope, UserScope}

EmptyBody == [preReading |-> Undefined, postReading |-> Undefined, date |-> <<>>]

NoReq == [method |-> "none", session |-> NoSession, user_id |-> NoSession, body |-> EmptyBody]
NoResp == [status |-> 0, body |-> <<>>]

Keys == Users \X Dates
NoHist == [first |-> 0, pre |-> Null, post |-> Null, writes |-> 0]

-----------------------------------------------------------------------------
(* Pure parts of the handlers *)

\* JavaScript truthiness of a reading field.
Truthy(v) == v \notin {Undefined, EmptyStr, Zero}

\* `x || null`
OrNull(v) == IF Truthy(v) THEN v ELSE Null

\* Mutants of Coalesce: SET column = $1, and COALESCE(column, $1).
CoalesceOverwrite(param, column) == param
CoalesceSwapped(param, column) == IF column # Null THEN column ELSE param

\* COALESCE($1, column)
Coalesce(param, column) == IF param # Null THEN param ELSE column

\* Mutants of Invalid: a test for missing fields only, and no test at all.
InvalidMissingOnly(body) == body.preReading = Undefined /\ body.postReading = Undefined
InvalidNever(body) == FALSE

\* if (!preReading && !postReading) return 400
Invalid(body) == ~Truthy(body.preReading) /\ ~Truthy(body.postReading)

\* const readingDate = date || today
ReadingDate(body) == IF body.date = <<>> THEN Today ELSE body.date[1]

\* Mutant of UserIdOf: the user id the client sent.
UserIdFromClient(session, claimed) == claimed

\* The user id bound to every statement: session.user.id.  `claimed` is a
\* user id the client may put in the request; the handlers never read it.
UserIdOf(session, claimed) == session

\* WHERE user_id = $1 AND reading_date = $2
Matching(u, d) == {x \in rows : x.user_id = u /\ x.reading_date = d}

\* Mutant of InWindow: no lower bound on reading_date.
InWindowAlways(d) == TRUE

\* WHERE user_id = $1 AND reading_date >= CURRENT_DATE - INTERVAL '3 months'
InWindow(d) == d >= Today - WindowMonths
Recent(u) == {x \in rows : x.user_id = u /\ InWindow(x.reading_date)}

\* SELECT id, pre_reading, post_reading, reading_date
Project(x) ==
    [id |-> x.id, pre_reading |-> x.pre_reading,
     post_reading |-> x.post_reading, reading_date |-> x.reading_date]

\* ORDER BY reading_date ASC: every ordering of S that is ascending by date;
\* the store leaves the order of rows with equal dates open.
OrderByDateAsc(S) ==
    {f \in [1..Cardinality(S) -> S] :
        /\ \A x \in S : \E i \in 1..Cardinality(S) : f[i] = x
        /\ \A i \in 1..(Cardinality(S) - 1) :
              f[i].reading_date <= f[i + 1].reading_date}

-----------------------------------------------------------------------------
(* The initial state: an empty table, an idle pool, no request in flight *)

Init ==
    /\ rows = {}
    /\ nextId = 1
    /\ pc = [r \in Reqs |-> "idle"]
    /\ stmt = [r \in Reqs |-> "none"]
    /\ req = [r \in Reqs |-> NoReq]
    /\ resp = [r \in Reqs |-> NoResp]
    /\ leased = {}
    /\ acquires = [r \in Reqs |-> 0]
    /\ releases = [r \in Reqs |-> 0]
    /\ hist = [k \in Keys |-> NoHist]
    /\ conc = [r \in Reqs |-> FALSE]
    /\ scope \in Scopes

\* POSTs in flight that have not taken the UPDATE branch.
MayInsert == {r \in Reqs : stmt[r] \in {"select_id", "insert"}}

\* The handler returns NextResponse.json(body, {status}).
Respond(r, status, body) ==
    /\ pc' = [pc EXCEPT ![r] = "done"]
    /\ stmt' = [stmt EXCEPT ![r] = "none"]
    /\ resp' = [resp EXCEPT ![r] = [status |-> status, body |-> body]]

\* The handler calls query(text, params): it awaits pool.connect().
CallQuery(r, text) ==
    /\ pc' = [pc EXCEPT ![r] = "connect"]
    /\ stmt' = [stmt EXCEPT ![r] = text]
    /\ UNCHANGED resp

\* Mutant of ReleaseOnExit: release after the await, outside any finally.
ReleaseOnSuccess(r, ok) ==
    IF ok
    THEN /\ leased' = leased \ {r}
         /\ releases' = [releases EXCEPT ![r] = @ + 1]
    ELSE UNCHANGED <<leased, releases>>

\* The finally block of query: client.release(), whether client.query
\* resolved (ok) or rejected.
ReleaseOnExit(r, ok) ==
    /\ leased' = leased \ {r}
    /\ releases' = [releases EXCEPT ![r] = @ + 1]

-----------------------------------------------------------------------------
(* GET /api/readings *)

GetUnauthorized(r) ==
    /\ pc[r] = "idle"
    /\ req' = [req EXCEPT ![r] = [NoReq EXCEPT !.method = "GET"]]
    /\ Respond(r, 401, <<>>)
    /\ UNCHANGED <<rows, nextId, leased, acquires, releases, hist, conc, scope>>

GetBegin(r) ==
    /\ pc[r] = "idle"
    /\ \E session \in scope.users, claimed \in Users :
          req' = [req EXCEPT ![r] =
                    [method |-> "GET", session |-> session,
                     user_id |-> UserIdOf(session, claimed), body |-> EmptyBody]]
    /\ CallQuery(r, "list")
    /\ UNCHANGED <<rows, nextId, leased, acquires, releases, hist, conc, scope>>

-----------------------------------------------------------------------------
(* POST /api/readings *)

PostUnauthorized(r) ==
    /\ pc[r] = "idle"
    /\ req' = [req EXCEPT ![r] = [NoReq EXCEPT !.method = "POST"]]
    /\ Respond(r, 401, <<>>)
    /\ UNCHANGED <<rows, nextId, leased, acquires, releases, hist, conc, scope>>

PostInvalid(r) ==
    /\ pc[r] = "idle"
    /\ \E session \in scope.users, claimed \in Users, body \in scope.bodies :
          /\ Invalid(body)
          /\ req' = [req EXCEPT ![r] =
                       [method |-> "POST", session |-> session,
                        user_id |-> UserIdOf(session, claimed), body |-> body]]
    /\ Respond(r, 400, <<>>)
    /\ UNCHANGED <<rows, nextId, leased, acquires, releases, hist, conc, scope>>

PostBegin(r) ==
    /\ pc[r] = "idle"
    /\ Cardinality(rows) + Cardinality(MayInsert) < MaxRows
    /\ \E session \in scope.users, claimed \in Users, body \in scope.bodies :
          /\ ~Invalid(body)
          /\ req' = [req EXCEPT ![r] =
                       [method |-> "POST", session |-> session,
                        user_id |-> UserIdOf(session, claimed), body |-> body]]
    /\ CallQuery(r, "select_id")
    /\ UNCHANGED <<rows, nextId, leased, acquires, releases, hist, conc, scope>>

-----------------------------------------------------------------------------
(* query(text, params) of lib/db.js *)

\* pool.connect() resolves: a client is checked out and client.query is sent.
Connect(r) ==
    /\ pc[r] = "connect"
    /\ pc' = [pc EXCEPT ![r] = "exec"]
    /\ leased' = leased \cup {r}
    /\ acquires' = [acquires EXCEPT ![r] = @ + 1]
    /\ UNCHANGED <<rows, nextId, stmt, req, resp, releases, hist, conc, scope>>

\* pool.connect() rejects: nothing was acquired; the handler's catch
\* answers 500.
ConnectFail(r) ==
    /\ pc[r] = "connect"
    /\ Respond(r, 500, <<>>)
    /\ UNCHANGED <<rows, nextId, req, leased, acquires, releases, hist, conc, scope>>

\* client.query rejects: the statement had no effect; finally releases the
\* client and the handler's catch answers 500.
ExecFail(r) ==
    /\ pc[r] = "exec"
    /\ ReleaseOnExit(r, FALSE)
    /\ Respond(r, 500, <<>>)
    /\ UNCHANGED <<rows, nextId, req, acquires, hist, conc, scope>>

\* SELECT ... WHERE user_id = $1 AND reading_date >= ... ORDER BY reading_date
ExecList(r) ==
    /\ pc[r] = "exec" /\ stmt[r] = "list"
    /\ ReleaseOnExit(r, TRUE)
    /\ \E f \in OrderByDateAsc(Recent(req[r].user_id)) :
          Respond(r, 200, [i \in 1..Len(f) |-> Project(f[i])])
    /\ UNCHANGED <<rows, nextId, req, acquires, hist, conc, scope>>

\* SELECT id FROM readings WHERE user_id = $1 AND reading_date = $2, then
\* the branch on existing.rows.length > 0 and the next call of query.
ExecLookup(r) ==
    /\ pc[r] = "exec" /\ stmt[r] = "select_id"
    /\ ReleaseOnExit(r, TRUE)
    /\ LET existing == Matching(req[r].user_id, ReadingDate(req[r].body))
       IN  CallQuery(r, IF Cardinality(existing) > 0 THEN "update" ELSE "insert")
    /\ UNCHANGED <<rows, nextId, req, acquires, hist, conc, scope>>

\* History: the store executed a write for key k with the given body.
Written(k, body, id) ==
    [first  |-> IF hist[k].first = 0 THEN id ELSE hist[k].first,
     pre    |-> IF Truthy(body.preReading) THEN body.preReading ELSE hist[k].pre,
     post   |-> IF Truthy(body.postReading) THEN body.postReading ELSE hist[k].post,
     writes |-> IF hist[k].writes < 2 THEN hist[k].writes + 1 ELSE 2]

\* The row an UPDATE leaves in place of x.
Updated(x, body) ==
    [x EXCEPT !.pre_reading = Coalesce(OrNull(body.preReading), x.pre_reading),
              !.post_reading = Coalesce(OrNull(body.postReading), x.post_reading)]

\* UPDATE readings SET ... WHERE user_id = $3 AND reading_date = $4 RETURNING *
ExecUpdate(r) ==
    /\ pc[r] = "exec" /\ stmt[r] = "update"
    /\ ReleaseOnExit(r, TRUE)
    /\ LET u == req[r].user_id
           d == ReadingDate(req[r].body)
           hit == Matching(u, d)
           new == {Updated(x, req[r].body) : x \in hit}
       IN  /\ rows' = (rows \ hit) \cup new
           /\ hist' = [hist EXCEPT ![<<u, d>>] = Written(<<u, d>>, req[r].body, 0)]
           /\ conc' = [conc EXCEPT ![r] =
                 \E o \in Reqs \ {r} :
                    /\ pc[o] \in {"connect", "exec"} /\ stmt[o] = "update"
                    /\ req[o].user_id = u /\ ReadingDate(req[o].body) = d]
           \* result.rows[0]
           /\ \E b \in (IF new = {} THEN {<<>>} ELSE {<<x>> : x \in new}) :
                 Respond(r, 200, b)
    /\ UNCHANGED <<nextId, req, acquires, scope>>

\* The row an INSERT adds.
Inserted(id, u, body) ==
    [id |-> id, user_id |-> u,
     pre_reading |-> OrNull(body.preReading),
     post_reading |-> OrNull(body.postReading),
     reading_date |-> ReadingDate(body)]

\* INSERT INTO readings (...) VALUES ($1, $2, $3, $4) RETURNING *
ExecInsert(r) ==
    /\ pc[r] = "exec" /\ stmt[r] = "insert"
    /\ ReleaseOnExit(r, TRUE)
    /\ LET u == req[r].user_id
           x == Inserted(nextId, u, req[r].body)
       IN  /\ rows' = rows \cup {x}
           /\ hist' = [hist EXCEPT ![<<u, x.reading_date>>] =
                          Written(<<u, x.reading_date>>, req[r].body, nextId)]
           /\ Respond(r, 200, <<x>>)
    /\ nextId' = nextId + 1
    /\ UNCHANGED <<req, acquires, conc, scope>>

\* The response has been delivered; the slot is free for the next request.
Finish(r) ==
    /\ pc[r] = "done"
    /\ pc' = [pc EXCEPT ![r] = "idle"]
    /\ req' = [req EXCEPT ![r] = NoReq]
    /\ resp' = [resp EXCEPT ![r] = NoResp]
    /\ conc' = [conc EXCEPT ![r] = FALSE]
    /\ acquires' = [acquires EXCEPT ![r] = 0]
    /\ releases' = [releases EXCEPT ![r] = 0]
    /\ UNCHANGED <<rows, nextId, stmt, leased, hist, scope>>

Step(r) ==
    \/ GetUnauthorized(r)
    \/ GetBegin(r)
    \/ PostUnauthorized(r)
    \/ PostInvalid(r)
    \/ PostBegin(r)
    \/ Connect(r)
    \/ ConnectFail(r)
    \/ ExecFail(r)
    \/ ExecList(r)
    \/ ExecLookup(r)
    \/ ExecUpdate(r)
    \/ ExecInsert(r)
    \/ Finish(r)

Next == \E r \in Reqs : Step(r)

Spec == Init /\ [][Next]_vars

\* Requests one at a time: a request begins only when no other is in flight.
Quiescent == \A o \in Reqs : pc[o] \in {"idle", "done"}

SeqNext ==
    \E r \in Reqs :
       \/ Quiescent /\ GetUnauthorized(r)
       \/ Quiescent /\ GetBegin(r)
       \/ Quiescent /\ PostUnauthorized(r)
       \/ Quiescent /\ PostInvalid(r)
       \/ Quiescent /\ PostBegin(r)
       \/ Connect(r)
       \/ ConnectFail(r)
       \/ ExecFail(r)
       \/ ExecList(r)
       \/ ExecLookup(r)
       \/ ExecUpdate(r)
       \/ ExecInsert(r)
       \/ Finish(r)

SeqSpec == Init /\ [][SeqNext]_vars

-----------------------------------------------------------------------------
(* Properties *)

Answered(r, method, status) ==
    pc[r] = "done" /\ req[r].method = method /\ resp[r].status = status

\* C1: at most one row per (user_id, reading_date), whatever the interleaving
\* of submissions.
C1_OneRowPerUserDate ==
    \A x \in rows, y \in rows :
       (x.user_id = y.user_id /\ x.reading_date = y.reading_date) => x = y

\* The row that the submissions written so far for key k merge into: the id
\* of the first insert, each field the last value supplied for it.
Merged(k) ==
    [id |-> hist[k].first, user_id |-> k[1],
     pre_reading |-> hist[k].pre, post_reading |-> hist[k].post,
     reading_date |-> k[2]]

\* C2: submissions made one after the other for the same (user, date) leave
\* exactly one row: the row the first of them inserted (same id), in which a
\* field holds the last value supplied for it and a field a submission
\* omitted keeps its stored value.
C2_MergeInPlace ==
    \A k \in Keys :
       Matching(k[1], k[2]) = IF hist[k].first = 0 THEN {} ELSE {Merged(k)}

\* A post-only submission answered with the record an earlier pre-only
\* submission created, now holding both values.
C2_Witness ==
    \E r \in Reqs :
       /\ Answered(r, "POST", 200)
       /\ ~Truthy(req[r].body.preReading)
       /\ Len(resp[r].body) = 1
       /\ resp[r].body[1].pre_reading # Null
       /\ resp[r].body[1].post_reading = req[r].body.postReading
       /\ resp[r].body[1] \in rows
       /\ resp[r].body[1].id = hist[<<req[r].session, ReadingDate(req[r].body)>>].first

\* C3: no row is ever stored with a reading_date after the current date.
C3_NoFutureReading == \A x \in rows : x.reading_date <= Today

\* C4: an authenticated POST with neither reading is answered 400 in its
\* first step, without calling query and without changing the table.
C4_InvalidRejectedBeforeStore ==
    [][\A r \in Reqs :
          ( /\ pc[r] = "idle" /\ pc'[r] # "idle"
            /\ req'[r].method = "POST" /\ req'[r].session # NoSession
            /\ ~Truthy(req'[r].body.preReading)
            /\ ~Truthy(req'[r].body.postReading) )
          => ( /\ pc'[r] = "done" /\ resp'[r].status = 400
               /\ stmt'[r] = "none" /\ acquires'[r] = 0
               /\ leased' = leased /\ rows' = rows /\ nextId' = nextId )]_vars

\* An authenticated POST whose fields are an empty string or zero and a
\* missing one has been answered 400.
C4_Witness ==
    \E r \in Reqs :
       /\ Answered(r, "POST", 400)
       /\ req[r].session # NoSession
       /\ req[r].body.preReading = Undefined
       /\ req[r].body.postReading \in {EmptyStr, Zero}
       /\ rows # {}

\* C5: every stored row has pre_reading or post_reading non-null.
C5_AtLeastOneReading ==
    \A x \in rows : x.pre_reading # Null \/ x.post_reading # Null

\* A submission with an empty or zero postReading has stored a row whose
\* post_reading is null.
C5_Witness ==
    \E r \in Reqs :
       /\ Answered(r, "POST", 200)
       /\ req[r].body.postReading \in {EmptyStr, Zero}
       /\ Len(resp[r].body) = 1
       /\ resp[r].body[1].post_reading = Null
       /\ resp[r].body[1] \in rows

\* C6: the rows GET returns are strictly ascending by reading_date.
C6_StrictlyAscending ==
    \A r \in Reqs :
       Answered(r, "GET", 200) =>
          \A i \in 1..(Len(resp[r].body) - 1) :
             resp[r].body[i].reading_date < resp[r].body[i + 1].reading_date

\* The entries of a GET response for date d.
EntriesFor(body, d) == {i \in 1..Len(body) : body[i].reading_date = d}

\* Key k has been written once, by a submission with only preReading.
OnlyPreWritten(k) ==
    hist[k].writes = 1 /\ hist[k].pre # Null /\ hist[k].post = Null

\* C7 as stated: when the only write to (user, date) so far is a submission
\* with only preReading, the user's next GET returns exactly one record for
\* that date, with post_reading null.
C7_NextRetrievalOneRecord ==
    [][\A r \in Reqs :
          (pc[r] = "exec" /\ stmt[r] = "list" /\ pc'[r] = "done"
             /\ resp'[r].status = 200)
          => \A d \in Dates :
                OnlyPreWritten(<<req[r].session, d>>)
                => /\ Cardinality(EntriesFor(resp'[r].body, d)) = 1
                   /\ \A i \in EntriesFor(resp'[r].body, d) :
                         resp'[r].body[i].post_reading = Null]_vars

\* C7 amended: the same for a date inside the trailing three months; for a
\* date before them the GET returns no record.
C7_NextRetrievalInWindow ==
    [][\A r \in Reqs :
          (pc[r] = "exec" /\ stmt[r] = "list" /\ pc'[r] = "done"
             /\ resp'[r].status = 200)
          => \A d \in Dates :
                OnlyPreWritten(<<req[r].session, d>>)
                => IF d >= Today - WindowMonths
                   THEN /\ Cardinality(EntriesFor(resp'[r].body, d)) = 1
                        /\ \A i \in EntriesFor(resp'[r].body, d) :
                              resp'[r].body[i].post_reading = Null
                   ELSE EntriesFor(resp'[r].body, d) = {}]_vars

\* A GET has returned the single record of a pre-only submission while the
\* same user also has a pre-only record older than the window.
C7_Witness ==
    \E r \in Reqs, d \in Dates, old \in Dates :
       /\ Answered(r, "GET", 200)
       /\ OnlyPreWritten(<<req[r].session, d>>)
       /\ OnlyPreWritten(<<req[r].session, old>>)
       /\ old < Today - WindowMonths
       /\ Cardinality(EntriesFor(resp[r].body, d)) = 1
       /\ EntriesFor(resp[r].body, old) = {}

RowsOf(table, u) == {x \in table : x.user_id = u}

\* C8: every statement is bound to the session's user id; a response holds
\* only rows of the session's user; a step of a request leaves the rows of
\* every other user as they were.
C8_UserIsolation ==
    /\ [](\A r \in Reqs :
            /\ req[r].user_id = req[r].session
            /\ Answered(r, "GET", 200) =>
                  \A i \in 1..Len(resp[r].body) :
                     \E x \in RowsOf(rows, req[r].session) : x.id = resp[r].body[i].id
            /\ Answered(r, "POST", 200) =>
                  \A i \in 1..Len(resp[r].body) :
                     resp[r].body[i].user_id = req[r].session)
    /\ [][\A r \in Reqs :
            pc'[r] # pc[r] =>
               \A u \in Users \ {req[r].session, req'[r].session} :
                  RowsOf(rows', u) = RowsOf(rows, u)]_vars

\* A GET of one user has returned rows while the other user, named in the
\* request as the client's choice of user id, has rows too.
C8_Witness ==
    \E r \in Reqs :
       /\ Answered(r, "GET", 200)
       /\ Len(resp[r].body) > 0
       /\ \E u \in Users \ {req[r].session} : RowsOf(rows, u) # {}

\* C9: a request holds a client exactly while its client.query is pending;
\* every client it was handed has been released once, and none twice.
C9_ConnectionReleased ==
    \A r \in Reqs :
       /\ r \in leased <=> pc[r] = "exec"
       /\ acquires[r] = releases[r] + (IF r \in leased THEN 1 ELSE 0)

\* A GET has failed in client.query, after it was handed a client, while
\* another request holds a client.
C9_Witness ==
    \E r \in Reqs :
       /\ Answered(r, "GET", 500)
       /\ acquires[r] = 1
       /\ leased # {}

\* C10: while a (user, date) has one row, each field of the row holds the
\* value of the last submission that supplied it, however the submissions
\* interleave; an UPDATE adds no row and removes none.
C10_LastWriterWins ==
    /\ [](\A k \in Keys :
            Cardinality(Matching(k[1], k[2])) = 1 =>
               \A x \in Matching(k[1], k[2]) :
                  x.pre_reading = hist[k].pre /\ x.post_reading = hist[k].post)
    /\ [][\A r \in Reqs :
            (pc[r] = "exec" /\ stmt[r] = "update" /\ pc'[r] = "done"
               /\ resp'[r].status = 200)
            => {x.id : x \in rows'} = {x.id : x \in rows}]_vars

\* Two submissions for the same existing record, both supplying preReading
\* with different values and one supplying postReading, ran their UPDATEs
\* interleaved and have both been answered.
C10_Witness ==
    \E r \in Reqs, o \in Reqs :
       /\ r # o
       /\ Answered(r, "POST", 200) /\ Answered(o, "POST", 200)
       /\ conc[r]
       /\ req[r].session = req[o].session
       /\ ReadingDate(req[r].body) = ReadingDate(req[o].body)
       /\ Truthy(req[r].body.preReading) /\ Truthy(req[o].body.preReading)
       /\ req[r].body.preReading # req[o].body.preReading
       /\ Truthy(req[r].body.postReading) /\ ~Truthy(req[o].body.postReading)
       /\ Cardinality(Matching(req[r].session, ReadingDate(req[r].body))) = 1

====
